---- MODULE Spec2Model ----
(***************************************************************************)
(* Model of the property search engine (App/search.py) and of the HTTP     *)
(* routes that call it (App/main.py).  The engine keeps no state of its    *)
(* own: every operation is one backend round trip.  The state of the model *)
(* is therefore one call: the operation, its arguments, what the backend   *)
(* answers, and what the operation sent, returned or raised.               *)
(*                                                                         *)
(* Five specifications share the definitions.                              *)
(*   Spec            one call, against any answer the backend can give     *)
(*   SpecStore       calls one after the other against one index, which    *)
(*                   answers from what the calls before wrote              *)
(*   SpecConcurrent  read calls in flight at once, their steps interleaved *)
(*   SpecPaging      one search request fetched page after page            *)
(*   SpecFavorites   the favorites lists of the agent (App/agent.py)       *)
(*                                                                         *)
(* Python values are modelled as follows.                                  *)
(*   None          the empty tuple <<>>                                    *)
(*   a value v of an Optional field   the 1-tuple <<v>>                    *)
(*   dict          a function from its keys (so a missing key is a key     *)
(*                 outside DOMAIN)                                         *)
(*   list          a sequence                                              *)
(*   str           a TLA+ string where only equality and emptiness matter; *)
(*                 a sequence of characters where substrings and case      *)
(*                 matter (location suggestions)                           *)
(***************************************************************************)
EXTENDS Integers, Sequences, FiniteSets, TLC

VARIABLES
    pc,        \* "called": the call has arrived; "done": it has ended
    op,        \* the operation called
    request,   \* its arguments
    response,  \* what the backend answers to the request the operation sends
    sent,      \* the request body the operation sent to the backend
    result,    \* what the operation returned or raised
    store,     \* the backend's index: the stored _source of each document id
               \* (in SpecFavorites: the agent's user_favorites dict)
    added,     \* history: the entity last given to add_property for an id
               \* (forgotten when the id is updated, deleted or written in
               \* bulk), the list loaded in bulk into the empty index, and
               \* whether the last search saw every document written
    calls,     \* the calls in flight, when several run at once
    engine     \* the attributes of the one PropertySearchEngine instance

vars == <<pc, op, request, response, sent, result, store, added, calls, engine>>

\* what a single call against an arbitrary backend answer leaves alone
others == <<store, added, calls, engine>>

-----------------------------------------------------------------------------
(* Bounds of the model *)

MaxLimit == 3

MaxTotal == 7

MaxPage == 2

MaxHits == 2

MaxSuggestions == 2

\* engine calls in flight at once
MaxCalls == 2

\* documents under one price_per_sqft aggregation
MaxDocs == 2

-----------------------------------------------------------------------------
(* Optional values and Python truthiness *)

None == <<>>

Some(v) == <<v>>

\* as TruthyNum, by `is not None`: 0 counts as a value
NotNoneNum(x) == x # None

\* bool(x) for an Optional number: None and 0 are falsy
TruthyNum(x) == x # None /\ x[1] # 0

\* bool(x) for an Optional string: None and "" are falsy
TruthyStr(x) == x # None /\ x[1] # ""

\* Python's `x or 0` on an Optional number
OrZero(x) == IF TruthyNum(x) THEN x[1] ELSE 0

OptStr == {None, Some(""), Some("austin")}

OptType == {None, Some(""), Some("house")}

OptQuery == {None, Some(""), Some("pool")}

OptNum == {None, Some(0), Some(2)}

OptAmenities == {None, Some(<<"pool">>)}

-----------------------------------------------------------------------------
(* models.py *)

PropertySearchFilters ==
    [location : OptStr, min_price : OptNum, max_price : OptNum,
     bedrooms : OptNum, bathrooms : OptNum, property_type : OptType,
     min_sqft : OptNum, max_sqft : OptNum, amenities : OptAmenities]

NoFilters ==
    [location |-> None, min_price |-> None, max_price |-> None,
     bedrooms |-> None, bathrooms |-> None, property_type |-> None,
     min_sqft |-> None, max_sqft |-> None, amenities |-> None]

\* the filter fields PropertySearchRequest also carries at top level
NoFlat ==
    [location |-> None, property_type |-> None, min_price |-> None,
     max_price |-> None, min_bedrooms |-> None, max_bedrooms |-> None,
     min_bathrooms |-> None, max_bathrooms |-> None, min_sqft |-> None,
     max_sqft |-> None, amenities |-> None]

FlatInputs ==
    {NoFlat,
     [NoFlat EXCEPT !.min_price = Some(2)],
     [NoFlat EXCEPT !.location = Some("austin"), !.max_sqft = Some(2)],
     [NoFlat EXCEPT !.amenities = Some(<<"pool">>)]}

\* PropertySearchRequest.limit: Field(ge=1, le=100), cut to the model's bound
Limits == 1..MaxLimit

\* PropertySearchRequest.page: Field(ge=1)
Pages == 1..MaxPage

-----------------------------------------------------------------------------
(* search.py: _build_search_query *)

\* the dict built for a (min, max) pair: key "gte" / "lte" only when truthy
RangeDict(lo, hi) ==
    [k \in (IF TruthyNum(lo) THEN {"gte"} ELSE {})
           \cup (IF TruthyNum(hi) THEN {"lte"} ELSE {})
       |-> IF k = "gte" THEN lo[1] ELSE hi[1]]

TextFields ==
    <<"title^2", "description", "location.address", "location.city",
      "location.neighborhood">>

LocationFields ==
    <<"location.city", "location.state", "location.address",
      "location.neighborhood">>

MultiMatch(q, fields) == [kind |-> "multi_match", query |-> q, fields |-> fields]

RangeClause(field, rng) == [kind |-> "range", field |-> field, range |-> rng]

TermClause(field, v) == [kind |-> "term", field |-> field, value |-> v]

ActiveClause == TermClause("status", "active")

MustClauses(query, filters) ==
    (IF TruthyStr(query) THEN <<MultiMatch(query[1], TextFields)>> ELSE <<>>)
    \o (IF filters # None /\ TruthyStr(filters[1].location)
          THEN <<MultiMatch(filters[1].location[1], LocationFields)>>
          ELSE <<>>)

\* as FilterClausesOf, with a terms clause for the amenities
FilterClausesWithAmenities(f) ==
    (IF TruthyNum(f.min_price) \/ TruthyNum(f.max_price)
        THEN <<RangeClause("price", RangeDict(f.min_price, f.max_price))>>
        ELSE <<>>)
    \o (IF TruthyNum(f.bedrooms)
          THEN <<TermClause("details.bedrooms", f.bedrooms[1])>> ELSE <<>>)
    \o (IF TruthyNum(f.bathrooms)
          THEN <<RangeClause("details.bathrooms",
                             [k \in {"gte"} |-> f.bathrooms[1]])>>
          ELSE <<>>)
    \o (IF TruthyStr(f.property_type)
          THEN <<TermClause("details.property_type", f.property_type[1])>>
          ELSE <<>>)
    \o (IF TruthyNum(f.min_sqft) \/ TruthyNum(f.max_sqft)
          THEN <<RangeClause("details.square_feet",
                             RangeDict(f.min_sqft, f.max_sqft))>>
          ELSE <<>>)
    \o (IF f.amenities # None
          THEN <<[kind |-> "terms", field |-> "details.amenities",
                  values |-> f.amenities[1]]>>
          ELSE <<>>)

FilterClausesOf(f) ==
    (IF TruthyNum(f.min_price) \/ TruthyNum(f.max_price)
        THEN <<RangeClause("price", RangeDict(f.min_price, f.max_price))>>
        ELSE <<>>)
    \o (IF TruthyNum(f.bedrooms)
          THEN <<TermClause("details.bedrooms", f.bedrooms[1])>> ELSE <<>>)
    \o (IF TruthyNum(f.bathrooms)
          THEN <<RangeClause("details.bathrooms",
                             [k \in {"gte"} |-> f.bathrooms[1]])>>
          ELSE <<>>)
    \o (IF TruthyStr(f.property_type)
          THEN <<TermClause("details.property_type", f.property_type[1])>>
          ELSE <<>>)
    \o (IF TruthyNum(f.min_sqft) \/ TruthyNum(f.max_sqft)
          THEN <<RangeClause("details.square_feet",
                             RangeDict(f.min_sqft, f.max_sqft))>>
          ELSE <<>>)

\* as FilterClauses, the status clause added only inside the `if filters` block
FilterClausesActiveInsideIf(filters) ==
    IF filters # None THEN FilterClausesOf(filters[1]) \o <<ActiveClause>> ELSE <<>>

FilterClauses(filters) ==
    (IF filters # None THEN FilterClausesOf(filters[1]) ELSE <<>>)
    \o <<ActiveClause>>

\* as _build_search_query, match_all when the request gave nothing
BuildSearchQueryMatchAllWhenEmpty(query, filters) ==
    LET must_clauses == MustClauses(query, filters)
        filter_clauses == FilterClauses(filters)
    IN  IF must_clauses # <<>> \/ filters # None
          THEN [kind |-> "bool", must |-> must_clauses, filter |-> filter_clauses]
          ELSE [kind |-> "match_all"]

\* reads search_request.query and search_request.filters, nothing else
_build_search_query(query, filters) ==
    LET must_clauses == MustClauses(query, filters)
        filter_clauses == FilterClauses(filters)
    IN  IF must_clauses # <<>> \/ filter_clauses # <<>>
          THEN [kind |-> "bool", must |-> must_clauses, filter |-> filter_clauses]
          ELSE [kind |-> "match_all"]

-----------------------------------------------------------------------------
(* search.py: _build_sort_criteria *)

sort_map ==
    [k \in {"price", "date", "bedrooms", "sqft", "relevance"} |->
        CASE k = "price" -> "price"
          [] k = "date" -> "listing_date"
          [] k = "bedrooms" -> "details.bedrooms"
          [] k = "sqft" -> "details.square_feet"
          [] k = "relevance" -> "_score"]

\* sort_map.get(sort_by, "price")
SortField(sort_by) ==
    IF sort_by # None /\ sort_by[1] \in DOMAIN sort_map
      THEN sort_map[sort_by[1]] ELSE "price"

\* as SortOrder, ascending only when asked for
SortOrderDescUnlessAsc(sort_order) == IF sort_order = Some("asc") THEN "asc" ELSE "desc"

\* "desc" if sort_order == "desc" else "asc"
SortOrder(sort_order) == IF sort_order = Some("desc") THEN "desc" ELSE "asc"

\* as _build_sort_criteria, without the special handling of the relevance score
SortCriteriaNoScoreCase(sort_by, sort_order) ==
    <<[field |-> SortField(sort_by), order |-> SortOrder(sort_order)]>>

_build_sort_criteria(sort_by, sort_order) ==
    LET field == SortField(sort_by)
        order == SortOrder(sort_order)
    IN  IF field = "_score"
          THEN <<[field |-> "_score", order |-> "desc"]>>
          ELSE <<[field |-> field, order |-> order]>>

SortKeys ==
    {None, Some("price"), Some("date"), Some("bedrooms"), Some("sqft"),
     Some("relevance"), Some("_score"), Some("size")}

SortOrders == {None, Some("asc"), Some("desc"), Some("descending")}


-----------------------------------------------------------------------------
(* The backend's documents and models.py: Property *)

\* _source of a stored document: a dict that may lack fields
Sources ==
    { [k \in {"id", "title", "price", "status"} |->
          CASE k = "id" -> "p1" [] k = "title" -> "Loft" [] k = "price" -> 2
            [] k = "status" -> "active"],
      [k \in {"id", "title", "price"} |->
          CASE k = "id" -> "p2" [] k = "title" -> "Barn" [] k = "price" -> 3],
      [k \in {"id", "price"} |->
          CASE k = "id" -> "p3" [] k = "price" -> 4] }

RequiredFields == {"id", "title", "price"}

\* Property(**source) succeeds only when every required field is given
Deserializable(src) == RequiredFields \subseteq DOMAIN src

\* Property(**source): the fields given, status defaulting to "active"
Property(src) ==
    [id |-> src["id"], title |-> src["title"], price |-> src["price"],
     status |-> IF "status" \in DOMAIN src THEN src["status"] ELSE "active"]

RECURSIVE SeqsUpTo(_, _)
\* the sequences over S of length at most n
SeqsUpTo(S, n) ==
    IF n = 0 THEN {<<>>}
    ELSE LET shorter == SeqsUpTo(S, n - 1)
         IN  shorter \cup {Append(s, x) : s \in {t \in shorter : Len(t) = n - 1}, x \in S}

Min(a, b) == IF a < b THEN a ELSE b

\* what client.search can do on a search body asking for `size` hits
BackendFailures == {"transport_error", "query_rejected"}

SearchResponses(size) ==
    [outcome : BackendFailures]
    \cup [outcome : {"ok"}, total : 0..MaxTotal,
          hits : SeqsUpTo(Sources, Min(size, MaxHits))]

-----------------------------------------------------------------------------
(* search.py: search_properties, called by main.py: search_properties *)

SearchFilterInputs ==
    {None, Some(NoFilters),
     Some([NoFilters EXCEPT !.min_price = Some(2), !.location = Some("austin")])}

PropertySearchRequest ==
    [query : {None, Some("pool")}, filters : SearchFilterInputs,
     page : Pages, limit : Limits,
     sort_by : {Some("price"), Some("relevance")},
     sort_order : {Some("asc"), Some("desc")}]

\* as SearchBody, the offset counted from page 0
SearchBodyOffsetFromPage(req) ==
    [query |-> _build_search_query(req.query, req.filters),
     from |-> req.page * req.limit,
     size |-> req.limit,
     sort |-> _build_sort_criteria(req.sort_by, req.sort_order)]

SearchBody(req) ==
    [query |-> _build_search_query(req.query, req.filters),
     from |-> (req.page - 1) * req.limit,
     size |-> req.limit,
     sort |-> _build_sort_criteria(req.sort_by, req.sort_order)]

\* as TotalPages, rounding down
TotalPagesFloor(total, limit) == total \div limit

\* (total + limit - 1) // limit
TotalPages(total, limit) == (total + limit - 1) \div limit

\* the outcome of a call: a value returned, or an exception raised
Returned(v) == [status |-> "returned", value |-> v]

Raised(e) == [status |-> "raised", error |-> e]

\* as search_properties, a backend failure answered with an empty page
SearchSwallowingFailure(req, resp) ==
    IF resp.outcome # "ok" \/ \E i \in 1..Len(resp.hits) : ~Deserializable(resp.hits[i])
      THEN Returned([properties |-> <<>>, total |-> 0, page |-> req.page,
                     limit |-> req.limit, total_pages |-> 0])
      ELSE Returned(
             [properties |-> [i \in 1..Len(resp.hits) |-> Property(resp.hits[i])],
              total |-> resp.total, page |-> req.page, limit |-> req.limit,
              total_pages |-> (resp.total + req.limit - 1) \div req.limit])

\* as search_properties, a hit that cannot be deserialized left out
SearchDroppingMalformedHits(req, resp) ==
    IF resp.outcome # "ok" THEN Raised(resp.outcome)
    ELSE LET hits == SelectSeq(resp.hits, Deserializable)
         IN  Returned(
               [properties |-> [i \in 1..Len(hits) |-> Property(hits[i])],
                total |-> resp.total, page |-> req.page, limit |-> req.limit,
                total_pages |-> (resp.total + req.limit - 1) \div req.limit])

\* as search_properties, the properties in the reverse of the hits' order
SearchReversingHits(req, resp) ==
    IF resp.outcome # "ok" THEN Raised(resp.outcome)
    ELSE IF \E i \in 1..Len(resp.hits) : ~Deserializable(resp.hits[i])
      THEN Raised("validation_error")
    ELSE Returned(
           [properties |-> [i \in 1..Len(resp.hits) |->
                              Property(resp.hits[Len(resp.hits) + 1 - i])],
            total |-> resp.total, page |-> req.page, limit |-> req.limit,
            total_pages |-> (resp.total + req.limit - 1) \div req.limit])

search_properties(req, resp) ==
    IF resp.outcome # "ok" THEN Raised(resp.outcome)
    ELSE IF \E i \in 1..Len(resp.hits) : ~Deserializable(resp.hits[i])
      THEN Raised("validation_error")
    ELSE Returned(
           [properties |-> [i \in 1..Len(resp.hits) |-> Property(resp.hits[i])],
            total |-> resp.total,
            page |-> req.page,
            limit |-> req.limit,
            total_pages |-> TotalPages(resp.total, req.limit)])

\* main.py: the route answers 500 on any exception of the engine call
RouteStatus(r) == IF r.status = "raised" THEN 500 ELSE 200

WithRoute(r) == [engine |-> r, http |-> RouteStatus(r)]

-----------------------------------------------------------------------------
(* The backend's answers to the aggregation queries *)

\* "value" of an avg / min / max metric: null when no document matched
Metrics == {None, Some(0), Some(250)}

\* "value" of a value_count metric: a count, never null
Counts == {0, 2}

\* "values" of the percentiles metric asked for percents [50]: a dict, which
\* holds null under its one key when no document matched
MedianValues ==
    {<<>>, [k \in {"50.0"} |-> None], [k \in {"50.0"} |-> Some(300)]}

\* "buckets" of a terms / range / date_histogram aggregation
Buckets(key) ==
    {<<>>, <<[key |-> key, key_as_string |-> "2024-01", doc_count |-> 2]>>}

\* "stats" metric: count and sum are numbers, min / max / avg null on no document
StatsValues ==
    {[count |-> 0, min |-> None, max |-> None, avg |-> None, sum |-> 0],
     [count |-> 2, min |-> Some(100), max |-> Some(400), avg |-> Some(250), sum |-> 500]}

\* a response that came back but lacks a key the method reads
Malformed(keys) == [outcome : {"malformed"}, missing : keys]

TrendsResponses ==
    [outcome : BackendFailures]
    \cup Malformed({"aggregations", "median_price", "key_as_string"})
    \cup [outcome : {"ok"},
          aggs : [total_properties : Counts, avg_price : Metrics,
                  median_price : MedianValues, min_price : Metrics,
                  max_price : Metrics, price_per_sqft : Metrics,
                  property_types : Buckets("house"),
                  price_ranges : Buckets("Under $200K"),
                  bedrooms_distribution : Buckets(3),
                  listing_dates : Buckets(1704067200)]]

StatsResponses ==
    [outcome : BackendFailures]
    \cup Malformed({"aggregations", "sqft_stats"})
    \cup [outcome : {"ok"},
          aggs : [total_properties : Counts, price_stats : StatsValues,
                  sqft_stats : StatsValues,
                  property_types : Buckets("house"), cities : Buckets("Austin"),
                  bedrooms : Buckets(3), bathrooms : Buckets(2),
                  status_distribution : Buckets("active")]]

-----------------------------------------------------------------------------
(* search.py: get_location_trends, called by main.py: get_location_trends *)

AnalyticsFields == <<"location.city", "location.state", "location.neighborhood">>

\* the five fixed price brackets: "from" inclusive, "to" exclusive
PriceRanges ==
    <<[key |-> "Under $200K", from |-> None, to |-> Some(200000)],
      [key |-> "$200K-$400K", from |-> Some(200000), to |-> Some(400000)],
      [key |-> "$400K-$600K", from |-> Some(400000), to |-> Some(600000)],
      [key |-> "$600K-$800K", from |-> Some(600000), to |-> Some(800000)],
      [key |-> "Over $800K", from |-> Some(800000), to |-> None]>>

\* as InRange, the upper bound included
InRangeUpperInclusive(price, range) ==
    /\ range.from # None => price >= range.from[1]
    /\ range.to # None => price <= range.to[1]

\* a range aggregation's bucket: "from" included, "to" excluded
InRange(price, range) ==
    /\ range.from # None => price >= range.from[1]
    /\ range.to # None => price < range.to[1]

\* the keys of the buckets a document of this price is counted in
BucketsOf(price, ranges) ==
    {ranges[i].key : i \in {j \in 1..Len(ranges) : InRange(price, ranges[j])}}

\* prices at, just under and just over every boundary, and price 0
BoundaryPrices ==
    {0} \cup UNION {{PriceRanges[i].to[1] - 1, PriceRanges[i].to[1],
                     PriceRanges[i].to[1] + 1} :
                      i \in {j \in 1..Len(PriceRanges) : PriceRanges[j].to # None}}

TrendsBody(location, property_type) ==
    [must |-> <<MultiMatch(location, AnalyticsFields)>>
              \o (IF TruthyStr(property_type)
                    THEN <<TermClause("details.property_type", property_type[1])>>
                    ELSE <<>>),
     price_ranges |-> PriceRanges,
     size |-> 0]

\* [{name: bucket['key'], "count": bucket['doc_count']} for bucket in buckets]
BucketCounts(buckets) ==
    [i \in 1..Len(buckets) |-> [key |-> buckets[i].key, count |-> buckets[i].doc_count]]

\* [{"month": bucket['key_as_string'], "count": ...} for bucket in buckets]
MonthCounts(buckets) ==
    [i \in 1..Len(buckets) |->
        [key |-> buckets[i].key_as_string, count |-> buckets[i].doc_count]]

\* list(values.values())[0] if values else 0
MedianOf(values) == IF DOMAIN values = {} THEN Some(0) ELSE values["50.0"]

\* the summary of the success path; a field that can hold None is an Optional
TrendsSummary(aggs) ==
    [total_properties |-> Some(aggs.total_properties),
     average_price |-> Some(OrZero(aggs.avg_price)),
     median_price |-> MedianOf(aggs.median_price),
     min_price |-> Some(OrZero(aggs.min_price)),
     max_price |-> Some(OrZero(aggs.max_price)),
     avg_price_per_sqft |-> Some(OrZero(aggs.price_per_sqft)),
     property_types |-> BucketCounts(aggs.property_types),
     price_ranges |-> BucketCounts(aggs.price_ranges),
     bedrooms_distribution |-> BucketCounts(aggs.bedrooms_distribution),
     monthly_listings |-> MonthCounts(aggs.listing_dates)]

\* the summary of the except branch
TrendsFallback ==
    [total_properties |-> Some(0), average_price |-> Some(0),
     median_price |-> Some(0), min_price |-> Some(0), max_price |-> Some(0),
     avg_price_per_sqft |-> Some(0), property_types |-> <<>>,
     price_ranges |-> <<>>, bedrooms_distribution |-> <<>>,
     monthly_listings |-> <<>>]

\* as get_location_trends, without the try / except
TrendsPropagatingFailure(location, property_type, time_period, resp) ==
    IF resp.outcome = "ok"
      THEN Returned([location |-> location, property_type |-> property_type,
                     time_period |-> time_period,
                     summary |-> TrendsSummary(resp.aggs)])
      ELSE Raised(resp.outcome)

get_location_trends(location, property_type, time_period, resp) ==
    Returned([location |-> location,
              property_type |-> property_type,
              time_period |-> time_period,
              summary |-> IF resp.outcome = "ok" THEN TrendsSummary(resp.aggs)
                          ELSE TrendsFallback])

-----------------------------------------------------------------------------
(* search.py: get_location_trends: the script of the price_per_sqft metric,  *)
(* as the backend runs it on each matching document.  price is a float and   *)
(* details.square_feet an integer field; a quotient is kept as num / den.    *)

\* what the script sees of a document
ScriptDocs == [price : {0, 3, 7}, square_feet : {None, Some(0), Some(2), Some(-2)}]

Number(num, den) == [kind |-> "number", num |-> num, den |-> den]

\* doc[field].value: an error when the document has no value for the field
DocValue(x) == IF x = None THEN [kind |-> "error"] ELSE Number(x[1], 1)

\* float / integer: no finite number when the divisor is 0
Divide(a, b) ==
    IF a.kind = "error" \/ b.kind = "error" THEN [kind |-> "error"]
    ELSE IF b.num = 0 THEN [kind |-> "not_finite"]
    ELSE Number(a.num, b.num)

\* as price_per_sqft, the division not guarded
PricePerSqftUnguarded(doc) ==
    Divide(DocValue(Some(doc.price)), DocValue(doc.square_feet))

\* if (size() > 0 && value > 0) { return price / square_feet } else { return 0 }
price_per_sqft(doc) ==
    IF doc.square_feet # None /\ doc.square_feet[1] > 0
      THEN Divide(DocValue(Some(doc.price)), DocValue(doc.square_feet))
      ELSE Number(0, 1)

RECURSIVE SumOf(_)
\* the sum of the values, over their common denominator
SumOf(values) ==
    IF values = <<>> THEN Number(0, 1)
    ELSE LET rest == SumOf(Tail(values))
             v == Head(values)
         IN  Number(v.num * rest.den + rest.num * v.den, v.den * rest.den)

\* the avg metric over the script's values: null without documents, and the
\* aggregation fails when the script fails on a document
AvgOf(values) ==
    IF \E i \in 1..Len(values) : values[i].kind # "number" THEN [kind |-> "failed"]
    ELSE IF values = <<>> THEN [kind |-> "null"]
    ELSE LET sum == SumOf(values)
         IN  Number(sum.num, sum.den * Len(values))

-----------------------------------------------------------------------------
(* search.py: get_property_stats, called by main.py: get_property_stats *)

\* "size": 20
TermsSize == 20

\* a terms aggregation; size is None where the query names none
Terms(field, size) == [field |-> field, size |-> size]

\* the five grouped counts of query["aggs"]
StatsTerms ==
    [g \in {"property_types", "cities", "bedrooms", "bathrooms",
            "status_distribution"} |->
        CASE g = "property_types" -> Terms("details.property_type", Some(TermsSize))
          [] g = "cities" -> Terms("location.city", Some(TermsSize))
          [] g = "bedrooms" -> Terms("details.bedrooms", None)
          [] g = "bathrooms" -> Terms("details.bathrooms", None)
          [] g = "status_distribution" -> Terms("status", None)]

StatsBody(location, property_type) ==
    LET filters ==
          (IF TruthyStr(location)
             THEN <<MultiMatch(location[1], AnalyticsFields)>> ELSE <<>>)
          \o (IF TruthyStr(property_type)
                THEN <<TermClause("details.property_type", property_type[1])>>
                ELSE <<>>)
    IN  [query |-> IF filters # <<>> THEN [kind |-> "bool", must |-> filters]
                   ELSE [kind |-> "match_all"],
         terms |-> StatsTerms,
         size |-> 0]

StatsOf(aggs) ==
    [total_properties |-> aggs.total_properties,
     price_statistics |-> aggs.price_stats,
     square_feet_statistics |-> aggs.sqft_stats,
     property_types |-> BucketCounts(aggs.property_types),
     top_cities |-> BucketCounts(aggs.cities),
     bedrooms_distribution |-> BucketCounts(aggs.bedrooms),
     bathrooms_distribution |-> BucketCounts(aggs.bathrooms),
     status_distribution |-> BucketCounts(aggs.status_distribution)]

\* the statistics of the except branch: both stats dicts are {}
StatsFallback ==
    [total_properties |-> 0,
     price_statistics |-> <<>>,
     square_feet_statistics |-> <<>>,
     property_types |-> <<>>, top_cities |-> <<>>,
     bedrooms_distribution |-> <<>>, bathrooms_distribution |-> <<>>,
     status_distribution |-> <<>>]

get_property_stats(location, property_type, resp) ==
    Returned([filters |-> [location |-> location, property_type |-> property_type],
              statistics |-> IF resp.outcome = "ok" THEN StatsOf(resp.aggs)
                             ELSE StatsFallback])

-----------------------------------------------------------------------------
(* search.py: get_location_suggestions, called by main.py:                  *)
(* get_location_suggestions.  Names are sequences of characters here.       *)

\* str.lower() on one character
LowerChar(c) ==
    CASE c = "A" -> "a"
      [] c = "U" -> "u"
      [] c = "N" -> "n"
      [] c = "D" -> "d"
      [] OTHER -> c

\* str.lower()
Lower(str) == [i \in 1..Len(str) |-> LowerChar(str[i])]

\* Python's `a in b` on strings: a is a contiguous part of b
In(a, b) ==
    \E i \in 0..(Len(b) - Len(a)) : SubSeq(b, i + 1, i + Len(a)) = a

Austin == <<"A", "u">>

NorthAustin == <<"N", " ", "A", "u">>

Downtown == <<"D", "o">>

austin == <<"a", "u">>

EmptyName == <<>>

CityKeys == {Austin, NorthAustin, Downtown}

\* a neighborhood may carry a city's name, and may be the empty string
NeighborhoodKeys == {Downtown, Austin, austin, EmptyName}

SuggestionQueries == {<<>>, <<"a", "u">>, <<"A", "U">>, <<"u", "a">>}

\* the limit is a result size: 0 and up
SuggestionLimits == 0..MaxSuggestions

RECURSIVE Orders(_)
\* the lists that hold each element of S once
Orders(S) ==
    IF S = {} THEN {<<>>}
    ELSE UNION {{<<x>> \o o : o \in Orders(S \ {x})} : x \in S}

Elements(seq) == {seq[i] : i \in 1..Len(seq)}

\* "buckets" of a terms aggregation of the given size: distinct keys
TermsBuckets(keys, size) ==
    UNION {Orders(K) : K \in {K \in SUBSET keys : Cardinality(K) <= size}}

SuggestionResponses(size) ==
    [outcome : BackendFailures]
    \cup Malformed({"aggregations"})
    \cup [outcome : {"malformed"}, missing : {"unique_neighborhoods"},
          unique_cities : TermsBuckets(CityKeys, size)]
    \cup [outcome : {"ok"},
          unique_cities : TermsBuckets(CityKeys, size),
          unique_neighborhoods : TermsBuckets(NeighborhoodKeys, size)]

\* if query.lower() in bucket['key'].lower()
CityMatches(query, key) == In(Lower(query), Lower(key))

\* if bucket['key'] and query.lower() in bucket['key'].lower()
NeighborhoodMatches(query, key) == key # <<>> /\ In(Lower(query), Lower(key))

\* the list `suggestions` after both loops
Suggestions(query, resp) ==
    SelectSeq(resp.unique_cities, LAMBDA k : CityMatches(query, k))
    \o SelectSeq(resp.unique_neighborhoods, LAMBDA k : NeighborhoodMatches(query, k))

\* seq[:n] for n >= 0
Slice(seq, n) == SubSeq(seq, 1, Min(n, Len(seq)))

\* as Deduplicated, the list kept as it is
NotDeduplicated(seq) == {seq}

\* list(set(suggestions)): each name once, in an order the code does not fix
Deduplicated(seq) == Orders(Elements(seq))

\* as get_location_suggestions, without the try / except
SuggestionsPropagatingFailure(query, limit, resp) ==
    IF resp.outcome = "ok"
      THEN {Returned(Slice(o, limit)) : o \in Deduplicated(Suggestions(query, resp))}
      ELSE {Raised(resp.outcome)}

\* the outcomes get_location_suggestions can have
get_location_suggestions(query, limit, resp) ==
    IF resp.outcome = "ok"
      THEN {Returned(Slice(o, limit)) : o \in Deduplicated(Suggestions(query, resp))}
      ELSE {Returned(<<>>)}

SuggestionsBody(query, limit) ==
    [should |-> <<[field |-> "location.city", query |-> query, boost |-> 2],
                  [field |-> "location.neighborhood", query |-> query, boost |-> 1],
                  [field |-> "location.state", query |-> query, boost |-> 1]>>,
     unique_cities |-> [field |-> "location.city", size |-> limit],
     unique_neighborhoods |-> [field |-> "location.neighborhood", size |-> limit],
     size |-> 0]

-----------------------------------------------------------------------------
(* search.py: get_property_by_id, add_property, update_property and          *)
(* delete_property, called by the routes of main.py                          *)

Ids == {"p1", "p2"}

\* valid Property entities
Properties == [id : Ids, title : {"Loft"}, price : {2, 3}, status : {"active", "sold"}]

\* as Dict, the status left out of the document
DictWithoutStatus(p) == [k \in {"id", "title", "price"} |-> p[k]]

\* Property.dict(): every field, defaults filled in
Dict(p) == [k \in {"id", "title", "price", "status"} |-> p[k]]

\* client.get: the document, NotFoundError, or a failure
GetResponses ==
    [outcome : BackendFailures \cup {"not_found"}]
    \cup [outcome : {"ok"}, source : Sources]

\* client.index
IndexResponses ==
    [outcome : BackendFailures] \cup [outcome : {"ok"}, result : {"created", "updated"}]

\* client.update / client.delete: the result status, NotFoundError, or a failure
MutationResponses ==
    [outcome : BackendFailures \cup {"not_found"}]
    \cup [outcome : {"ok"},
          result : {"updated", "noop", "deleted", "not_found", "created"}]

\* Optional[Property]: None on any exception
get_property_by_id(property_id, resp) ==
    IF resp.outcome = "ok" /\ Deserializable(resp.source)
      THEN Returned(Some(Property(resp.source)))
      ELSE Returned(None)

add_property(property_data, resp) ==
    IF resp.outcome = "ok" THEN Returned(resp) ELSE Raised(resp.outcome)

\* as update_property, only "updated" counted as success
UpdateOnlyUpdated(property_id, property_data, resp) ==
    Returned(resp.outcome = "ok" /\ resp.result = "updated")

update_property(property_id, property_data, resp) ==
    Returned(resp.outcome = "ok" /\ resp.result \in {"updated", "noop"})

delete_property(property_id, resp) ==
    Returned(resp.outcome = "ok" /\ resp.result = "deleted")

\* main.py get_property: 404 when the engine returned None
GetRouteStatus(r) ==
    IF r.status = "raised" THEN 500 ELSE IF r.value = None THEN 404 ELSE 200

\* main.py update_property / delete_property: 404 when the engine returned False
MutationRouteStatus(r) ==
    IF r.status = "raised" THEN 500 ELSE IF ~r.value THEN 404 ELSE 200

-----------------------------------------------------------------------------
(* main.py: the routes under /api/properties, and models.py: the bounds of   *)
(* PropertySearchRequest.page and .limit                                     *)

\* Field(default=10, ge=1, le=100)
LimitLe == 100

\* page: ge=1; limit: ge=1, le=100
ValidPaging(page, limit) == page >= 1 /\ limit >= 1 /\ limit <= LimitLe

\* the routes in the order the decorators register them
Routes ==
    << [method |-> "POST",   path |-> <<"api", "properties", "search">>,
        handler |-> "search_properties"],
       [method |-> "GET",    path |-> <<"api", "properties", "{property_id}">>,
        handler |-> "get_property"],
       [method |-> "POST",   path |-> <<"api", "properties">>,
        handler |-> "add_property"],
       [method |-> "PUT",    path |-> <<"api", "properties", "{property_id}">>,
        handler |-> "update_property"],
       [method |-> "DELETE", path |-> <<"api", "properties", "{property_id}">>,
        handler |-> "delete_property"],
       [method |-> "GET",    path |-> <<"api", "properties", "search">>,
        handler |-> "search_properties_get"],
       [method |-> "POST",   path |-> <<"api", "properties", "bulk">>,
        handler |-> "bulk_add_properties"] >>

\* a path parameter matches any segment
Matches(route, method, path) ==
    /\ route.method = method
    /\ Len(route.path) = Len(path)
    /\ \A i \in 1..Len(path) :
          route.path[i] = "{property_id}" \/ route.path[i] = path[i]

\* the router takes the first registered route that matches
Dispatch(method, path) ==
    LET matching == {i \in DOMAIN Routes : Matches(Routes[i], method, path)}
    IN  IF matching = {} THEN "none"
        ELSE Routes[CHOOSE i \in matching : \A j \in matching : i <= j].handler

SearchPath == <<"api", "properties", "search">>

\* page and limit as they arrive, before validation
RawPages == {0} \cup Pages
RawLimits == {0} \cup Limits \cup {LimitLe, LimitLe + 1}

SearchHttpRequests ==
    [method : {"POST", "GET"}, path : {SearchPath}, page : RawPages, limit : RawLimits]

\* the PropertySearchRequest both search handlers hand to the engine
SearchRequestOf(http) ==
    [query |-> None, filters |-> None, page |-> http.page, limit |-> http.limit,
     sort_by |-> Some("price"), sort_order |-> Some("asc")]

\* what the backend is asked for by the handler the request is routed to
HttpResponses(http) ==
    LET handler == Dispatch(http.method, http.path)
    IN  IF handler = "get_property" THEN GetResponses
        ELSE IF ValidPaging(http.page, http.limit) THEN SearchResponses(http.limit)
        ELSE {None}

\* the handler's backend call and answer
HandleSearchHttp(http, resp) ==
    LET handler == Dispatch(http.method, http.path)
        valid == ValidPaging(http.page, http.limit)
        searched == search_properties(SearchRequestOf(http), resp)
        fetched == get_property_by_id(http.path[3], resp)
    IN  CASE handler = "search_properties" ->
               \* the body is validated before the handler runs
               IF valid
                 THEN [sent |-> SearchBody(SearchRequestOf(http)), handler |-> handler,
                       engine |-> searched, http |-> RouteStatus(searched)]
                 ELSE [sent |-> None, handler |-> handler,
                       engine |-> Raised("validation_error"), http |-> 422]
          [] handler = "search_properties_get" ->
               \* PropertySearchRequest(...) raises inside the try
               IF valid
                 THEN [sent |-> SearchBody(SearchRequestOf(http)), handler |-> handler,
                       engine |-> searched, http |-> RouteStatus(searched)]
                 ELSE [sent |-> None, handler |-> handler,
                       engine |-> Raised("validation_error"), http |-> 500]
          [] handler = "get_property" ->
               [sent |-> [call |-> "get", id |-> http.path[3]], handler |-> handler,
                engine |-> fetched, http |-> GetRouteStatus(fetched)]

-----------------------------------------------------------------------------
(* The backend's index, as the engine's calls read and write it: documents   *)
(* are readable by id as soon as they are written, and searchable from the   *)
(* next refresh on (the engine's writes ask for no refresh)                  *)

EmptyStore == [docs |-> <<>>, searchable |-> <<>>]

Put(docs, id, src) ==
    [k \in DOMAIN docs \cup {id} |-> IF k = id THEN src ELSE docs[k]]

Remove(docs, id) == [k \in DOMAIN docs \ {id} |-> docs[k]]

\* client.update with body {"doc": ...}: the fields of doc laid over the source
Merged(src, doc) ==
    [k \in DOMAIN src \cup DOMAIN doc |-> IF k \in DOMAIN doc THEN doc[k] ELSE src[k]]

BackendGet(docs, id) ==
    IF id \in DOMAIN docs THEN [outcome |-> "ok", source |-> docs[id]]
    ELSE [outcome |-> "not_found"]

BackendUpdate(docs, id, doc) ==
    IF id \notin DOMAIN docs THEN [outcome |-> "not_found"]
    ELSE [outcome |-> "ok",
          result |-> IF Merged(docs[id], doc) = docs[id] THEN "noop" ELSE "updated"]

BackendDelete(docs, id) ==
    IF id \in DOMAIN docs THEN [outcome |-> "ok", result |-> "deleted"]
    ELSE [outcome |-> "not_found"]

\* a term or a range clause against one document
MatchesClause(src, clause) ==
    /\ clause.field \in DOMAIN src
    /\ IF clause.kind = "term" THEN src[clause.field] = clause.value
       ELSE /\ "gte" \in DOMAIN clause.range => src[clause.field] >= clause.range["gte"]
            /\ "lte" \in DOMAIN clause.range => src[clause.field] <= clause.range["lte"]

\* a bool query without text clauses against one document
MatchesQuery(src, query) ==
    query.kind = "bool" =>
        \A i \in 1..Len(query.filter) : MatchesClause(src, query.filter[i])

\* hits in the order of the sort; documents with equal sort values in any order
InSortOrder(docs, ids, sort) ==
    \A i \in 1..Len(ids) : \A j \in i..Len(ids) :
        \/ sort[1].field \notin DOMAIN docs[ids[i]]
        \/ sort[1].field \notin DOMAIN docs[ids[j]]
        \/ IF sort[1].order = "asc"
             THEN docs[ids[i]][sort[1].field] <= docs[ids[j]][sort[1].field]
             ELSE docs[ids[i]][sort[1].field] >= docs[ids[j]][sort[1].field]

\* client.search over the searchable documents: total and one page of hits
BackendSearch(docs, body) ==
    LET matching == {id \in DOMAIN docs : MatchesQuery(docs[id], body.query)}
        ranked == {ids \in Orders(matching) : InSortOrder(docs, ids, body.sort)}
        last == Min(body.from + body.size, Cardinality(matching))
    IN  {[outcome |-> "ok", total |-> Cardinality(matching),
          hits |-> [i \in 1..(IF last > body.from THEN last - body.from ELSE 0)
                      |-> docs[ids[body.from + i]]]] : ids \in ranked}

\* as BulkActions, the last property left out
BulkActionsDroppingLast(properties) ==
    [i \in 1..(Len(properties) - 1) |->
        [_id |-> properties[i]["id"], _source |-> properties[i]]]

\* bulk_index_properties: one index action per property
BulkActions(properties) ==
    [i \in 1..Len(properties) |->
        [_id |-> properties[i]["id"], _source |-> properties[i]]]

\* helpers.bulk: the actions applied in order
RECURSIVE BackendBulk(_, _)
BackendBulk(docs, actions) ==
    IF actions = <<>> THEN docs
    ELSE BackendBulk(Put(docs, Head(actions)._id, Head(actions)._source), Tail(actions))

\* the entities written in the runs against the store
StoredProperties ==
    {p \in Properties : IF p.id = "p1" THEN p.status = "active"
                        ELSE (p.price = 3) <=> (p.status = "sold")}

\* lists of entities with distinct ids
BulkLists ==
    {l \in SeqsUpTo(StoredProperties, Cardinality(Ids)) :
        /\ l # <<>>
        /\ \A i \in 1..Len(l) : \A j \in 1..Len(l) : l[i].id = l[j].id => i = j}

StoreSearchRequests ==
    [query : {None},
     filters : {None, Some([NoFilters EXCEPT !.max_price = Some(2)])},
     page : Pages, limit : Limits,
     sort_by : {Some("price")}, sort_order : {Some("asc")}]

\* history: nothing added yet
NoHistory == [single |-> <<>>, bulk |-> None, fresh |-> TRUE]

-----------------------------------------------------------------------------
(* The state machine *)

\* A call arrives with its arguments and with the answer the backend is going
\* to give (Init); the operation then runs to its end in one step.
InitSearchQuery ==
    /\ op = "_build_search_query"
    /\ request \in
         [query : OptQuery,
          filters : {None} \cup {Some(f) : f \in PropertySearchFilters},
          flat : {NoFlat}]
         \cup [query : {None}, filters : SearchFilterInputs,
               flat : FlatInputs \ {NoFlat}]
    /\ response = None

InitSortCriteria ==
    /\ op = "_build_sort_criteria"
    /\ request \in [sort_by : SortKeys, sort_order : SortOrders]
    /\ response = None

InitSearch ==
    /\ op = "search_properties"
    /\ request \in PropertySearchRequest
    /\ response \in SearchResponses(request.limit)

InitTrends ==
    /\ op = "get_location_trends"
    /\ request \in [location : {"austin", "reno"},
                    property_type : {None, Some("house")},
                    time_period : {"1year", "6months"}]
    /\ response \in TrendsResponses

InitStats ==
    /\ op = "get_property_stats"
    /\ request \in [location : OptStr, property_type : OptType]
    /\ response \in StatsResponses

InitSuggestions ==
    /\ op = "get_location_suggestions"
    /\ request \in [query : SuggestionQueries, limit : SuggestionLimits]
    /\ response \in SuggestionResponses(request.limit)

InitPricePerSqft ==
    /\ op = "price_per_sqft"
    /\ request \in [docs : SeqsUpTo(ScriptDocs, MaxDocs)]
    /\ response = None

InitPriceRanges ==
    /\ op = "price_ranges"
    /\ request \in [price : BoundaryPrices, location : {"austin", "reno"},
                    property_type : {None, Some("house")}]
    /\ response = None

InitGet ==
    /\ op = "get_property_by_id"
    /\ request \in [property_id : Ids]
    /\ response \in GetResponses

InitAdd ==
    /\ op = "add_property"
    /\ request \in [property_data : Properties]
    /\ response \in IndexResponses

InitUpdate ==
    /\ op = "update_property"
    /\ request \in [property_id : Ids, property_data : Properties]
    /\ response \in MutationResponses

InitDelete ==
    /\ op = "delete_property"
    /\ request \in [property_id : Ids]
    /\ response \in MutationResponses

InitSearchHttp ==
    /\ op = "http_search"
    /\ request \in SearchHttpRequests
    /\ response \in HttpResponses(request)

\* the one engine instance of the process
search_engine == [index_name |-> "properties", client |-> "client"]

Init ==
    /\ pc = "called"
    /\ sent = None
    /\ result = None
    /\ store = <<>>
    /\ added = <<>>
    /\ calls = <<>>
    /\ engine = search_engine
    /\ \/ InitSearchQuery
       \/ InitSortCriteria
       \/ InitSearch
       \/ InitTrends
       \/ InitStats
       \/ InitSuggestions
       \/ InitGet
       \/ InitAdd
       \/ InitUpdate
       \/ InitDelete
       \/ InitSearchHttp
       \/ InitPricePerSqft
       \/ InitPriceRanges

BuildSearchQuery ==
    /\ pc = "called" /\ op = "_build_search_query"
    /\ result' = _build_search_query(request.query, request.filters)
    /\ pc' = "done"
    /\ UNCHANGED <<op, request, response, sent>>
    /\ UNCHANGED others

BuildSortCriteria ==
    /\ pc = "called" /\ op = "_build_sort_criteria"
    /\ result' = _build_sort_criteria(request.sort_by, request.sort_order)
    /\ pc' = "done"
    /\ UNCHANGED <<op, request, response, sent>>
    /\ UNCHANGED others

SearchProperties ==
    /\ pc = "called" /\ op = "search_properties"
    /\ sent' = SearchBody(request)
    /\ result' = WithRoute(search_properties(request, response))
    /\ pc' = "done"
    /\ UNCHANGED <<op, request, response>>
    /\ UNCHANGED others

GetLocationTrends ==
    /\ pc = "called" /\ op = "get_location_trends"
    /\ sent' = TrendsBody(request.location, request.property_type)
    /\ result' = WithRoute(get_location_trends(request.location,
                     request.property_type, request.time_period, response))
    /\ pc' = "done"
    /\ UNCHANGED <<op, request, response>>
    /\ UNCHANGED others

GetPropertyStats ==
    /\ pc = "called" /\ op = "get_property_stats"
    /\ sent' = StatsBody(request.location, request.property_type)
    /\ result' = WithRoute(get_property_stats(request.location,
                     request.property_type, response))
    /\ pc' = "done"
    /\ UNCHANGED <<op, request, response>>
    /\ UNCHANGED others

GetLocationSuggestions ==
    /\ pc = "called" /\ op = "get_location_suggestions"
    /\ sent' = SuggestionsBody(request.query, request.limit)
    /\ \E r \in get_location_suggestions(request.query, request.limit, response) :
          result' = WithRoute(r)
    /\ pc' = "done"
    /\ UNCHANGED <<op, request, response>>
    /\ UNCHANGED others

GetPropertyById ==
    /\ pc = "called" /\ op = "get_property_by_id"
    /\ sent' = [call |-> "get", id |-> request.property_id]
    /\ LET r == get_property_by_id(request.property_id, response)
       IN  result' = [engine |-> r, http |-> GetRouteStatus(r)]
    /\ pc' = "done"
    /\ UNCHANGED <<op, request, response>>
    /\ UNCHANGED others

AddProperty ==
    /\ pc = "called" /\ op = "add_property"
    /\ sent' = [call |-> "index", id |-> request.property_data.id,
                body |-> Dict(request.property_data)]
    /\ result' = WithRoute(add_property(Dict(request.property_data), response))
    /\ pc' = "done"
    /\ UNCHANGED <<op, request, response>>
    /\ UNCHANGED others

UpdateProperty ==
    /\ pc = "called" /\ op = "update_property"
    /\ sent' = [call |-> "update", id |-> request.property_id,
                doc |-> Dict(request.property_data)]
    /\ LET r == update_property(request.property_id,
                                Dict(request.property_data), response)
       IN  result' = [engine |-> r, http |-> MutationRouteStatus(r)]
    /\ pc' = "done"
    /\ UNCHANGED <<op, request, response>>
    /\ UNCHANGED others

DeleteProperty ==
    /\ pc = "called" /\ op = "delete_property"
    /\ sent' = [call |-> "delete", id |-> request.property_id]
    /\ LET r == delete_property(request.property_id, response)
       IN  result' = [engine |-> r, http |-> MutationRouteStatus(r)]
    /\ pc' = "done"
    /\ UNCHANGED <<op, request, response>>
    /\ UNCHANGED others

\* the backend computing the price_per_sqft metric of a trends query
AggregatePricePerSqft ==
    /\ pc = "called" /\ op = "price_per_sqft"
    /\ LET values == [i \in 1..Len(request.docs) |-> price_per_sqft(request.docs[i])]
       IN  result' = [values |-> values, avg |-> AvgOf(values)]
    /\ pc' = "done"
    /\ UNCHANGED <<op, request, response, sent>>
    /\ UNCHANGED others

\* the backend counting one document under the price_ranges of a trends query
AggregatePriceRanges ==
    /\ pc = "called" /\ op = "price_ranges"
    /\ sent' = TrendsBody(request.location, request.property_type)
    /\ result' = BucketsOf(request.price,
                     TrendsBody(request.location, request.property_type).price_ranges)
    /\ pc' = "done"
    /\ UNCHANGED <<op, request, response>>
    /\ UNCHANGED others

SearchHttp ==
    /\ pc = "called" /\ op = "http_search"
    /\ LET handled == HandleSearchHttp(request, response)
       IN  /\ sent' = handled.sent
           /\ result' = [engine |-> handled.engine, http |-> handled.http,
                         handler |-> handled.handler]
    /\ pc' = "done"
    /\ UNCHANGED <<op, request, response>>
    /\ UNCHANGED others

Next ==
    \/ BuildSearchQuery
    \/ BuildSortCriteria
    \/ SearchProperties
    \/ GetLocationTrends
    \/ GetPropertyStats
    \/ GetLocationSuggestions
    \/ GetPropertyById
    \/ AddProperty
    \/ UpdateProperty
    \/ DeleteProperty
    \/ SearchHttp
    \/ AggregatePricePerSqft
    \/ AggregatePriceRanges

Spec == Init /\ [][Next]_vars

-----------------------------------------------------------------------------
(* Calls one after the other against one index.  Each step is one engine     *)
(* call served by the backend from the index as the calls before left it.    *)

InitStore ==
    /\ pc = "ready"
    /\ op = "none"
    /\ request = None
    /\ response = None
    /\ sent = None
    /\ result = None
    /\ store = EmptyStore
    /\ added = NoHistory
    /\ calls = <<>>
    /\ engine = search_engine

Serving == pc \in {"ready", "served"}

\* the history without the ids in `ids`, and no bulk load to speak of
Forget(ids) ==
    [added EXCEPT !.single = [k \in DOMAIN @ \ ids |-> @[k]], !.bulk = None]

StoreAdd ==
    /\ Serving
    /\ \E p \in StoredProperties, outcome \in {"ok", "transport_error"} :
         LET property_data == Dict(p)
             resp == IF outcome # "ok" THEN [outcome |-> outcome]
                     ELSE [outcome |-> "ok",
                           result |-> IF property_data["id"] \in DOMAIN store.docs
                                        THEN "updated" ELSE "created"]
         IN  /\ op' = "add_property"
             /\ request' = [property_data |-> p]
             /\ sent' = [call |-> "index", id |-> property_data["id"],
                         body |-> property_data]
             /\ response' = resp
             /\ result' = WithRoute(add_property(property_data, resp))
             /\ IF outcome = "ok"
                  THEN /\ store' = [store EXCEPT
                                      !.docs = Put(@, property_data["id"], property_data)]
                       /\ added' = [added EXCEPT !.single = Put(@, p.id, p),
                                                 !.bulk = None]
                  ELSE UNCHANGED <<store, added>>
    /\ pc' = "served"
    /\ UNCHANGED <<calls, engine>>

StoreUpdate ==
    /\ Serving
    /\ \E p \in StoredProperties :
         LET property_data == Dict(p)
             resp == BackendUpdate(store.docs, p.id, property_data)
             r == update_property(p.id, property_data, resp)
         IN  /\ op' = "update_property"
             /\ request' = [property_id |-> p.id, property_data |-> p]
             /\ sent' = [call |-> "update", id |-> p.id, doc |-> property_data]
             /\ response' = resp
             /\ result' = [engine |-> r, http |-> MutationRouteStatus(r)]
             /\ store' = IF resp.outcome = "ok"
                           THEN [store EXCEPT
                                   !.docs = Put(@, p.id, Merged(@[p.id], property_data))]
                           ELSE store
             /\ added' = Forget({p.id})
    /\ pc' = "served"
    /\ UNCHANGED <<calls, engine>>

StoreDelete ==
    /\ Serving
    /\ \E id \in Ids :
         LET resp == BackendDelete(store.docs, id)
             r == delete_property(id, resp)
         IN  /\ op' = "delete_property"
             /\ request' = [property_id |-> id]
             /\ sent' = [call |-> "delete", id |-> id]
             /\ response' = resp
             /\ result' = [engine |-> r, http |-> MutationRouteStatus(r)]
             /\ store' = [store EXCEPT !.docs = Remove(@, id)]
             /\ added' = Forget({id})
    /\ pc' = "served"
    /\ UNCHANGED <<calls, engine>>

StoreGet ==
    /\ Serving
    /\ \E id \in Ids :
         LET resp == BackendGet(store.docs, id)
             r == get_property_by_id(id, resp)
         IN  /\ op' = "get_property_by_id"
             /\ request' = [property_id |-> id]
             /\ sent' = [call |-> "get", id |-> id]
             /\ response' = resp
             /\ result' = [engine |-> r, http |-> GetRouteStatus(r)]
    /\ pc' = "served"
    /\ UNCHANGED <<store, added, calls, engine>>

StoreBulk ==
    /\ Serving
    /\ \E l \in BulkLists :
         LET properties == [i \in 1..Len(l) |-> Dict(l[i])]
             actions == BulkActions(properties)
         IN  /\ op' = "bulk_index_properties"
             /\ request' = [properties |-> l]
             /\ sent' = [call |-> "bulk", actions |-> actions]
             /\ response' = [outcome |-> "ok"]
             /\ result' = WithRoute(Returned(None))
             /\ store' = [store EXCEPT !.docs = BackendBulk(@, actions)]
             /\ added' = [Forget({l[i].id : i \in 1..Len(l)}) EXCEPT
                            !.bulk = IF DOMAIN store.docs = {}
                                        /\ DOMAIN store.searchable = {}
                                       THEN Some(l) ELSE None]
    /\ pc' = "served"
    /\ UNCHANGED <<calls, engine>>

StoreSearch ==
    /\ Serving
    /\ \E req \in StoreSearchRequests :
         \E resp \in BackendSearch(store.searchable, SearchBody(req)) :
             /\ op' = "search_properties"
             /\ request' = req
             /\ sent' = SearchBody(req)
             /\ response' = resp
             /\ result' = WithRoute(search_properties(req, resp))
    /\ added' = [added EXCEPT !.fresh = (store.searchable = store.docs)]
    /\ pc' = "served"
    /\ UNCHANGED <<store, calls, engine>>

\* the backend's periodic refresh: what was written becomes searchable
Refresh ==
    /\ Serving
    /\ store.searchable # store.docs
    /\ store' = [store EXCEPT !.searchable = store.docs]
    /\ UNCHANGED <<pc, op, request, response, sent, result, added, calls, engine>>

NextStore ==
    \/ StoreAdd
    \/ StoreUpdate
    \/ StoreDelete
    \/ StoreGet
    \/ StoreBulk
    \/ StoreSearch
    \/ Refresh

SpecStore == InitStore /\ [][NextStore]_vars

-----------------------------------------------------------------------------
(* Read calls in flight at once on the one engine instance, against an index *)
(* nobody writes.  A call builds its request body in local variables, hands  *)
(* it to the client together with self.index_name, and turns the answer into *)
(* its result; the steps of different calls interleave freely.               *)

\* the calls that may be in flight, each with the answer the index gives it
ConcurrentCalls ==
    [op : {"search_properties"},
     request : {r \in PropertySearchRequest :
                   /\ r.query = None /\ r.filters = None /\ r.limit = 1
                   /\ r.sort_by = Some("price") /\ r.sort_order = Some("asc")},
     response : {r \in SearchResponses(1) :
                   r.outcome = "ok" => /\ r.total = 1
                                       /\ Len(r.hits) = 1
                                       /\ Deserializable(r.hits[1])}]
    \cup [op : {"get_location_trends"},
          request : [location : {"austin"}, property_type : {None},
                     time_period : {"1year"}],
          response : {r \in TrendsResponses : r.outcome = "transport_error"}]
    \cup [op : {"get_property_stats"},
          request : [location : {None, Some("austin")}, property_type : {None}],
          response : {r \in StatsResponses : r.outcome = "query_rejected"}]
    \cup [op : {"get_location_suggestions"},
          request : [query : {austin}, limit : {1}],
          response : {r \in SuggestionResponses(1) :
                        /\ r.outcome = "ok"
                        /\ Len(r.unique_cities) = 1
                        /\ r.unique_neighborhoods = <<>>}]

\* the body the call's method builds from its arguments
BodyOf(c) ==
    CASE c.op = "search_properties" -> SearchBody(c.request)
      [] c.op = "get_location_trends" ->
           TrendsBody(c.request.location, c.request.property_type)
      [] c.op = "get_property_stats" ->
           StatsBody(c.request.location, c.request.property_type)
      [] c.op = "get_location_suggestions" ->
           SuggestionsBody(c.request.query, c.request.limit)

\* what the call's method may return or raise on the answer `resp`
ResultsOf(c, resp) ==
    CASE c.op = "search_properties" ->
           {WithRoute(search_properties(c.request, resp))}
      [] c.op = "get_location_trends" ->
           {WithRoute(get_location_trends(c.request.location,
                c.request.property_type, c.request.time_period, resp))}
      [] c.op = "get_property_stats" ->
           {WithRoute(get_property_stats(c.request.location,
                c.request.property_type, resp))}
      [] c.op = "get_location_suggestions" ->
           {WithRoute(r) :
              r \in get_location_suggestions(c.request.query, c.request.limit, resp)}

\* as Frame, the intermediate values kept in one place shared by all calls
FrameShared(i) == 1

\* the local variables of call i live in its own frame
Frame(i) == i

InitConcurrent ==
    /\ pc = "concurrent"
    /\ op = "none"
    /\ request = None
    /\ response = None
    /\ sent = None
    /\ result = None
    /\ store = <<>>
    /\ added = <<>>
    /\ engine = search_engine
    /\ \E cs \in [1..MaxCalls -> ConcurrentCalls] :
         /\ \A i, j \in 1..MaxCalls :
               (cs[i].op = cs[j].op /\ cs[i].request = cs[j].request)
                  => cs[i].response = cs[j].response
         /\ calls = [i \in 1..MaxCalls |->
                       [op |-> cs[i].op, request |-> cs[i].request,
                        response |-> cs[i].response, pc |-> "called",
                        body |-> None, received |-> None,
                        sent |-> None, result |-> None]]

\* query = self._build_search_query(...) and the like: the body, in a local
BuildBody(i) ==
    /\ calls[i].pc = "called"
    /\ calls' = [calls EXCEPT ![Frame(i)].body = Some(BodyOf(calls[i])),
                              ![i].pc = "built"]
    /\ UNCHANGED <<pc, op, request, response, sent, result, store, added, engine>>

\* response = self.client.search(index=self.index_name, body=...)
CallClient(i) ==
    /\ calls[i].pc = "built"
    /\ calls' = [calls EXCEPT
                   ![i].sent = [client |-> engine.client, index |-> engine.index_name,
                                body |-> calls[Frame(i)].body],
                   ![Frame(i)].received = Some(calls[i].response),
                   ![i].pc = "answered"]
    /\ UNCHANGED <<pc, op, request, response, sent, result, store, added, engine>>

\* the rest of the method: the answer turned into the result
ReturnResult(i) ==
    /\ calls[i].pc = "answered"
    /\ calls[Frame(i)].received # None
    /\ \E r \in ResultsOf(calls[i], calls[Frame(i)].received[1]) :
          calls' = [calls EXCEPT ![i].result = Some(r), ![i].pc = "done"]
    /\ UNCHANGED <<pc, op, request, response, sent, result, store, added, engine>>

NextConcurrent ==
    \E i \in 1..MaxCalls : BuildBody(i) \/ CallClient(i) \/ ReturnResult(i)

SpecConcurrent == InitConcurrent /\ [][NextConcurrent]_vars

-----------------------------------------------------------------------------
(* One search request fetched page after page, from page 1 on, against an    *)
(* index nobody writes, every document of which is searchable.               *)

PagingIds == {"p1", "p2", "p3"}

\* the document of an entity
PagingDoc(id, price, status) ==
    [k \in {"id", "title", "price", "status"} |->
        CASE k = "id" -> id [] k = "title" -> "Loft" [] k = "price" -> price
          [] k = "status" -> status]

\* indexes of up to three documents; equal prices and a sold listing occur
PagingStores ==
    UNION {{[id \in ids |-> PagingDoc(id, prices[id],
                                      IF id \in sold THEN "sold" ELSE "active")] :
              prices \in [ids -> {2, 3, 4}], sold \in SUBSET (ids \cap {"p3"})} :
           ids \in SUBSET PagingIds}

PagingRequests ==
    [query : {None},
     filters : {None, Some([NoFilters EXCEPT !.max_price = Some(3)])},
     page : {1}, limit : Limits,
     sort_by : {Some("price")}, sort_order : {Some("asc"), Some("desc")}]

InitPaging ==
    /\ pc = "paging"
    /\ op = "search_properties"
    /\ request \in PagingRequests
    /\ response = None
    /\ sent = None
    /\ result = None
    /\ \E docs \in PagingStores : store = [docs |-> docs, searchable |-> docs]
    /\ added = NoHistory
    /\ calls = <<>>
    /\ engine = search_engine

\* the next page of the request: pages 1 .. total_pages and one beyond
FetchPage ==
    /\ pc = "paging"
    /\ calls # <<>> => Len(calls) <= calls[1].result.total_pages
    /\ LET req == [request EXCEPT !.page = Len(calls) + 1]
       IN  \E resp \in BackendSearch(store.searchable, SearchBody(req)) :
              LET r == search_properties(req, resp)
              IN  /\ request' = req
                  /\ sent' = SearchBody(req)
                  /\ response' = resp
                  /\ result' = WithRoute(r)
                  /\ calls' = Append(calls, [sent |-> SearchBody(req),
                                            result |-> r.value])
    /\ UNCHANGED <<pc, op, store, added, engine>>

NextPaging == FetchPage

SpecPaging == InitPaging /\ [][NextPaging]_vars

-----------------------------------------------------------------------------
(* agent.py: RealEstateAgent.user_favorites, a dict from user id to the list *)
(* of property ids, under add_to_favorites, remove_from_favorites and        *)
(* get_user_favorites called one after the other                             *)

UserIds == {"u1", "u2"}

\* as add_to_favorites, without the `not in` test
AddAlwaysAppending(user_favorites, user_id, property_id) ==
    LET favorites == IF user_id \in DOMAIN user_favorites
                       THEN user_favorites ELSE Put(user_favorites, user_id, <<>>)
    IN  [favorites EXCEPT ![user_id] = Append(@, property_id)]

\* self.user_favorites after add_to_favorites(user_id, property_id)
add_to_favorites(user_favorites, user_id, property_id) ==
    LET favorites == IF user_id \in DOMAIN user_favorites
                       THEN user_favorites ELSE Put(user_favorites, user_id, <<>>)
    IN  IF property_id \notin Elements(favorites[user_id])
          THEN [favorites EXCEPT ![user_id] = Append(@, property_id)]
          ELSE favorites

\* list.remove(x): the first occurrence of x taken out
ListRemove(list, x) ==
    LET first == CHOOSE i \in 1..Len(list) :
                    list[i] = x /\ \A j \in 1..(i - 1) : list[j] # x
    IN  SubSeq(list, 1, first - 1) \o SubSeq(list, first + 1, Len(list))

\* self.user_favorites after remove_from_favorites(user_id, property_id)
remove_from_favorites(user_favorites, user_id, property_id) ==
    IF user_id \in DOMAIN user_favorites
       /\ property_id \in Elements(user_favorites[user_id])
      THEN [user_favorites EXCEPT ![user_id] = ListRemove(@, property_id)]
      ELSE user_favorites

\* self.user_favorites.get(user_id, [])
get_user_favorites(user_favorites, user_id) ==
    IF user_id \in DOMAIN user_favorites THEN user_favorites[user_id] ELSE <<>>

InitFavorites ==
    /\ pc = "agent"
    /\ op = "none"
    /\ request = None
    /\ response = None
    /\ sent = None
    /\ result = None
    /\ store = <<>>
    /\ added = [last |-> <<>>, before |-> <<>>]
    /\ calls = <<>>
    /\ engine = search_engine

AddToFavorites ==
    /\ pc = "agent"
    /\ \E user_id \in UserIds, property_id \in Ids :
          /\ op' = "add_to_favorites"
          /\ request' = [user_id |-> user_id, property_id |-> property_id]
          /\ store' = add_to_favorites(store, user_id, property_id)
          /\ result' = TRUE
          /\ added' = [last |-> Put(added.last, <<user_id, property_id>>, "add"),
                       before |-> store]
    /\ UNCHANGED <<pc, response, sent, calls, engine>>

RemoveFromFavorites ==
    /\ pc = "agent"
    /\ \E user_id \in UserIds, property_id \in Ids :
          /\ op' = "remove_from_favorites"
          /\ request' = [user_id |-> user_id, property_id |-> property_id]
          /\ store' = remove_from_favorites(store, user_id, property_id)
          /\ result' = TRUE
          /\ added' = [last |-> Put(added.last, <<user_id, property_id>>, "remove"),
                       before |-> store]
    /\ UNCHANGED <<pc, response, sent, calls, engine>>

GetUserFavorites ==
    /\ pc = "agent"
    /\ \E user_id \in UserIds :
          /\ op' = "get_user_favorites"
          /\ request' = [user_id |-> user_id]
          /\ result' = get_user_favorites(store, user_id)
          /\ added' = [added EXCEPT !.before = store]
    /\ UNCHANGED <<pc, response, sent, store, calls, engine>>

NextFavorites ==
    \/ AddToFavorites
    \/ RemoveFromFavorites
    \/ GetUserFavorites

SpecFavorites == InitFavorites /\ [][NextFavorites]_vars


-----------------------------------------------------------------------------
(* Properties *)

Done(o) == pc = "done" /\ op = o

SearchReturned == Done("search_properties") /\ result.engine.status = "returned"

\* the least k with k * L >= T, for T >= 0 and L >= 1
Ceil(T, L) == CHOOSE k \in 0..T : k * L >= T /\ \A j \in 0..T : j * L >= T => k <= j

\* C1: for every limit L and backend total T >= 0, the response of
\* search_properties has total_pages = 0 when T = 0 and ceil(T / L) otherwise,
\* hence total_pages >= 1 whenever T > 0.
C1_TotalPagesIsCeiling ==
    SearchReturned =>
        LET T == response.total
            L == request.limit
            pages == result.engine.value.total_pages
        IN  /\ T = 0 => pages = 0
            /\ T > 0 => pages = Ceil(T, L) /\ pages >= 1

C1_Witness ==
    /\ SearchReturned
    /\ response.total > request.limit
    /\ response.total % request.limit # 0
    /\ result.engine.value.total_pages = (response.total \div request.limit) + 1

IsActiveClause(c) == c.kind = "term" /\ c.field = "status" /\ c.value = "active"

IsStatusClause(c) == c.kind = "term" /\ c.field = "status"

HasActiveFilter(q) ==
    /\ q.kind = "bool"
    /\ \E i \in 1..Len(q.filter) : IsActiveClause(q.filter[i])
    /\ \A i \in 1..Len(q.filter) : IsStatusClause(q.filter[i]) => IsActiveClause(q.filter[i])
    /\ \A i \in 1..Len(q.must) : ~IsStatusClause(q.must[i])

\* C2: every query compiled by _build_search_query, whatever the free-text
\* query and the filters (also with no filters at all), has the filter clause
\* term status = "active", and no clause on status with another value.
C2_ActiveFilterAlways ==
    /\ Done("_build_search_query") => HasActiveFilter(result)
    /\ Done("search_properties") => HasActiveFilter(sent.query)

C2_Witness ==
    /\ Done("_build_search_query")
    /\ request.query = None
    /\ request.filters = None
    /\ result.filter = <<ActiveClause>>

RecognizedSortKeys == {"price", "date", "bedrooms", "sqft", "relevance"}

UnrecognizedKey(k) == k = None \/ k[1] \notin RecognizedSortKeys

\* C3, as claimed: "relevance" yields descending relevance score for every
\* direction, and every key outside the table yields price ascending for
\* every direction.
C3_UnrecognizedKeyIsPriceAscending ==
    Done("_build_sort_criteria") =>
        /\ request.sort_by = Some("relevance")
             => result = <<[field |-> "_score", order |-> "desc"]>>
        /\ UnrecognizedKey(request.sort_by)
             => result = <<[field |-> "price", order |-> "asc"]>>

\* C3, amended: "relevance" yields descending relevance score for every
\* direction; every key outside the table yields one directive on price,
\* descending when the requested direction is "desc" and ascending for every
\* other direction.
C3_UnrecognizedKeyIsPriceInRequestedOrder ==
    Done("_build_sort_criteria") =>
        /\ request.sort_by = Some("relevance")
             => result = <<[field |-> "_score", order |-> "desc"]>>
        /\ UnrecognizedKey(request.sort_by)
             => /\ Len(result) = 1
                /\ result[1].field = "price"
                /\ result[1].order = "desc" <=> request.sort_order = Some("desc")
                /\ result[1].order = "asc" <=> request.sort_order # Some("desc")

C3_Witness ==
    /\ Done("_build_sort_criteria")
    /\ request.sort_by = Some("size")
    /\ request.sort_order = Some("desc")
    /\ result = <<[field |-> "price", order |-> "desc"]>>

\* the range clauses of a compiled query on one field
RangesOn(q, field) ==
    {i \in 1..Len(q.filter) : q.filter[i].kind = "range" /\ q.filter[i].field = field}

\* a (min, max) pair compiles to exactly one range clause with each present
\* side as its bound and each absent side open, and to none when both are absent
PairCompiled(q, field, lo, hi) ==
    IF lo = None /\ hi = None THEN RangesOn(q, field) = {}
    ELSE /\ Cardinality(RangesOn(q, field)) = 1
         /\ \A i \in RangesOn(q, field) :
              LET rng == q.filter[i].range
              IN  /\ lo # None <=> "gte" \in DOMAIN rng
                  /\ hi # None <=> "lte" \in DOMAIN rng
                  /\ lo # None => rng["gte"] = lo[1]
                  /\ hi # None => rng["lte"] = hi[1]

\* C4: a request with min_price present and max_price absent compiles to a
\* price range with lower bound min_price and no upper bound; a range clause
\* for price or square footage is emitted exactly when at least one side is
\* present, the absent side left open.
C4_RangeWheneverASidePresent ==
    (Done("_build_search_query") /\ request.filters # None) =>
        LET f == request.filters[1]
        IN  /\ result.kind = "bool"
            /\ PairCompiled(result, "price", f.min_price, f.max_price)
            /\ PairCompiled(result, "details.square_feet", f.min_sqft, f.max_sqft)

\* C5: when the backend search call fails (transport error or rejected
\* query), search_properties raises that failure and the route answers with
\* an error; no SearchResponse is returned.
C5_SearchFailurePropagates ==
    (Done("search_properties") /\ response.outcome \in BackendFailures) =>
        /\ result.engine.status = "raised"
        /\ result.engine.error = response.outcome
        /\ result.http = 500

C5_Witness ==
    /\ Done("search_properties")
    /\ response.outcome = "query_rejected"
    /\ result.engine = Raised("query_rejected")
    /\ result.http = 500

NumericSummaryFields ==
    {"total_properties", "average_price", "median_price", "min_price",
     "max_price", "avg_price_per_sqft"}

BucketSummaryFields ==
    {"property_types", "price_ranges", "bedrooms_distribution", "monthly_listings"}

\* C6: when the backend call fails or its response is malformed,
\* get_location_trends does not raise: it returns a structure echoing
\* location, property_type and time_period whose summary has
\* total_properties = 0, every numeric metric 0 and every bucket list empty.
C6_TrendsDegradeToZero ==
    (Done("get_location_trends") /\ response.outcome # "ok") =>
        /\ result.engine.status = "returned"
        /\ result.http = 200
        /\ LET v == result.engine.value
           IN  /\ v.location = request.location
               /\ v.property_type = request.property_type
               /\ v.time_period = request.time_period
               /\ \A f \in NumericSummaryFields : v.summary[f] = Some(0)
               /\ \A f \in BucketSummaryFields : v.summary[f] = <<>>

C6_Witness ==
    /\ Done("get_location_trends")
    /\ response.outcome = "malformed"
    /\ response.missing = "median_price"
    /\ request.property_type = Some("house")
    /\ result.engine.status = "returned"
    /\ result.engine.value.summary.total_properties = Some(0)
    /\ result.engine.value.summary.monthly_listings = <<>>

StatsKeys == {"min", "max", "avg", "sum", "count"}

ZeroStats(d) == \A k \in StatsKeys : k \in DOMAIN d /\ d[k] = 0

GroupedCounts ==
    {"property_types", "top_cities", "bedrooms_distribution",
     "bathrooms_distribution", "status_distribution"}

\* C7: when the backend call fails or its response is malformed,
\* get_property_stats does not raise: it returns total count 0, price and
\* square-footage statistics present with min, max, avg, sum and count all 0,
\* and every grouped-count list empty.
C7_StatsDegradeToZeroValued ==
    (Done("get_property_stats") /\ response.outcome # "ok") =>
        /\ result.engine.status = "returned"
        /\ LET st == result.engine.value.statistics
           IN  /\ st.total_properties = 0
               /\ ZeroStats(st.price_statistics)
               /\ ZeroStats(st.square_feet_statistics)
               /\ \A f \in GroupedCounts : st[f] = <<>>

\* C8: for every successful aggregation response, every numeric summary field
\* of get_location_trends is present and numeric: a metric the backend
\* reports as null (also a null 50th-percentile value) is returned as 0,
\* never as null.
C8_TrendsMetricsNeverNull ==
    (Done("get_location_trends") /\ response.outcome = "ok") =>
        LET sm == result.engine.value.summary
            a == response.aggs
        IN  /\ \A f \in NumericSummaryFields : sm[f] # None
            /\ a.avg_price = None => sm.average_price = Some(0)
            /\ a.min_price = None => sm.min_price = Some(0)
            /\ a.max_price = None => sm.max_price = Some(0)
            /\ a.price_per_sqft = None => sm.avg_price_per_sqft = Some(0)
            /\ (DOMAIN a.median_price = {} \/ a.median_price["50.0"] = None)
                 => sm.median_price = Some(0)

\* b holds a as a contiguous part, letter case ignored
ContainsIgnoringCase(a, b) ==
    \E i \in 0..Len(b) : \E j \in i..Len(b) :
        /\ j - i = Len(a)
        /\ \A k \in 1..Len(a) : LowerChar(b[i + k]) = LowerChar(a[k])

SuggestionsAnswered ==
    /\ Done("get_location_suggestions")
    /\ response.outcome = "ok"

\* C9: for every query q and limit n, get_location_suggestions returns a list
\* with no duplicate names and at most n entries, every entry a city or
\* neighborhood bucket key that contains q as a case-insensitive substring;
\* so no bucket key that does not contain q is returned.
C9_SuggestionsMatchQuery ==
    SuggestionsAnswered =>
        /\ result.engine.status = "returned"
        /\ LET out == result.engine.value
           IN  /\ Len(out) <= request.limit
               /\ \A i, j \in 1..Len(out) : out[i] = out[j] => i = j
               /\ \A i \in 1..Len(out) :
                    /\ out[i] \in Elements(response.unique_cities)
                                  \cup Elements(response.unique_neighborhoods)
                    /\ ContainsIgnoringCase(request.query, out[i])

\* query "Austin" against cities Austin, North Austin and neighborhood
\* Downtown, two names asked for: both cities come back, Downtown does not
C9_Witness ==
    /\ SuggestionsAnswered
    /\ request.query = <<"A", "U">>
    /\ request.limit = 2
    /\ Elements(response.unique_cities) = {Austin, NorthAustin}
    /\ response.unique_neighborhoods = <<Downtown>>
    /\ Elements(result.engine.value) = {Austin, NorthAustin}

\* C10: when the backend call fails or its response lacks the expected
\* aggregations, get_location_suggestions returns the empty list and does
\* not raise.
C10_SuggestionsDegradeToEmpty ==
    (Done("get_location_suggestions") /\ ~SuggestionsAnswered) =>
        /\ result.engine = Returned(<<>>)
        /\ result.http = 200

\* the response lacks unique_neighborhoods: the cities already collected are
\* given up too
C10_Witness ==
    /\ Done("get_location_suggestions")
    /\ response.outcome = "malformed"
    /\ response.missing = "unique_neighborhoods"
    /\ request.query = <<"a", "u">>
    /\ response.unique_cities = <<Austin>>
    /\ result.engine = Returned(<<>>)

GetFailedOtherwise ==
    \/ response.outcome \in BackendFailures
    \/ response.outcome = "ok" /\ ~Deserializable(response.source)

\* C11: get_property_by_id keeps "the requested id is absent" apart from other
\* failures: a backend transport failure or a stored document that cannot be
\* deserialized is never reported to the caller as not-found (HTTP 404).
C11_NotFoundOnlyWhenAbsent ==
    (Done("get_property_by_id") /\ GetFailedOtherwise) =>
        /\ result.engine # Returned(None)
        /\ result.http # 404

\* C12: update_property returns true exactly when the backend result status
\* is "updated" or "noop", delete_property exactly when it is "deleted"; any
\* other reported status yields false, and nothing is raised.
C12_MutationResultFromStatus ==
    /\ Done("update_property") =>
         /\ result.engine.status = "returned"
         /\ result.engine.value <=>
              (response.outcome = "ok" /\ response.result \in {"updated", "noop"})
    /\ Done("delete_property") =>
         /\ result.engine.status = "returned"
         /\ result.engine.value <=>
              (response.outcome = "ok" /\ response.result = "deleted")

C12_Witness ==
    /\ Done("update_property")
    /\ response.outcome = "ok"
    /\ response.result = "noop"
    /\ result.engine = Returned(TRUE)

C12_WitnessDelete ==
    /\ Done("delete_property")
    /\ response.outcome = "ok"
    /\ response.result = "not_found"
    /\ result.engine = Returned(FALSE)

\* C13: a backend transport failure or query rejection during add_property,
\* update_property or delete_property reaches the caller as a hard error; it
\* is not turned into false, nor reported as not found.
C13_MutationFailurePropagates ==
    (/\ pc = "done"
     /\ op \in {"add_property", "update_property", "delete_property"}
     /\ response.outcome \in BackendFailures) =>
        /\ result.engine.status = "raised"
        /\ result.http = 500

\* C14: a search request whose limit is outside 1..100 or whose page is below
\* 1 is rejected as a validation error before any backend call is issued, on
\* the POST and on the GET search path alike.
C14_InvalidPagingRejectedBeforeBackend ==
    (/\ Done("http_search")
     /\ request.path = SearchPath
     /\ ~ValidPaging(request.page, request.limit)) =>
        /\ sent = None
        /\ result.engine = Raised("validation_error")

\* the part of C14 the code keeps: no such request reaches client.search
C14_InvalidPagingNeverSearches ==
    (Done("http_search") /\ ~ValidPaging(request.page, request.limit)) =>
        (sent = None \/ sent.call = "get")

Served(o) == pc = "served" /\ op = o

\* C15: round trip: after add_property(p) succeeded, with no update or delete
\* of p.id since, get_property_by_id(p.id) returns an entity equal to p field
\* for field.
C15_AddThenGetRoundTrip ==
    (Served("get_property_by_id") /\ request.property_id \in DOMAIN added.single) =>
        /\ result.engine = Returned(Some(added.single[request.property_id]))
        /\ result.http = 200

C15_Witness ==
    /\ Served("get_property_by_id")
    /\ request.property_id \in DOMAIN added.single
    /\ added.single[request.property_id].status = "sold"
    /\ result.engine = Returned(Some(added.single[request.property_id]))

\* an entity as the filters of a request see it
EntityMatches(p, filters) ==
    filters # None =>
        /\ filters[1].min_price # None => p.price >= filters[1].min_price[1]
        /\ filters[1].max_price # None => p.price <= filters[1].max_price[1]

\* the store holds exactly one bulk load of active entities that all match
\* the filters of the search just served
BulkLoadedAndMatching ==
    /\ Served("search_properties")
    /\ added.bulk # None
    /\ \A i \in 1..Len(added.bulk[1]) :
          /\ added.bulk[1][i].status = "active"
          /\ EntityMatches(added.bulk[1][i], request.filters)

Found == Elements(result.engine.value.properties)

\* C16: starting from an empty store, after bulk_index_properties of N valid
\* active entities that all match a filter set, a search with those filters
\* returns exactly those N entities: none extra, none missing, total = N.
C16_BulkThenSearchReturnsAll ==
    BulkLoadedAndMatching =>
        /\ result.engine.status = "returned"
        /\ result.engine.value.total = Len(added.bulk[1])
        /\ Found = Elements(added.bulk[1])
        /\ Len(result.engine.value.properties) = Len(added.bulk[1])

\* C16, as the code has it: once the index has been refreshed, the search
\* reports total = N and returns at most `limit` entities, all among the N;
\* the first page of a search whose limit is at least N holds exactly the N.
C16_BulkThenSearchReturnsPage ==
    (BulkLoadedAndMatching /\ added.fresh) =>
        /\ result.engine.status = "returned"
        /\ result.engine.value.total = Len(added.bulk[1])
        /\ Found \subseteq Elements(added.bulk[1])
        /\ Len(result.engine.value.properties) <= request.limit
        /\ (request.page = 1 /\ request.limit >= Len(added.bulk[1])) =>
              /\ Found = Elements(added.bulk[1])
              /\ Len(result.engine.value.properties) = Len(added.bulk[1])

C16_Witness ==
    /\ BulkLoadedAndMatching
    /\ added.fresh
    /\ Len(added.bulk[1]) = 2
    /\ request.filters # None
    /\ request.page = 1
    /\ Found = Elements(added.bulk[1])

\* the value of a logical field: nested under `filters` when present there,
\* otherwise the one given at top level
Effective(req, nested, top) ==
    IF req.filters # None /\ req.filters[1][nested] # None
      THEN req.filters[1][nested] ELSE req.flat[top]

\* the canonical filter set of a request (bedrooms and bathrooms, which have
\* no single top-level counterpart, as nested)
EffectiveFilters(req) ==
    IF req.filters = None /\ req.flat = NoFlat THEN None
    ELSE Some([location |-> Effective(req, "location", "location"),
               min_price |-> Effective(req, "min_price", "min_price"),
               max_price |-> Effective(req, "max_price", "max_price"),
               bedrooms |-> IF req.filters = None THEN None
                            ELSE req.filters[1].bedrooms,
               bathrooms |-> IF req.filters = None THEN None
                             ELSE req.filters[1].bathrooms,
               property_type |-> Effective(req, "property_type", "property_type"),
               min_sqft |-> Effective(req, "min_sqft", "min_sqft"),
               max_sqft |-> Effective(req, "max_sqft", "max_sqft"),
               amenities |-> Effective(req, "amenities", "amenities")])

\* C17: the filter set the query is compiled from takes each logical field
\* from `filters` when present there and otherwise from the top level of the
\* request, so a filter given only at top level constrains the search.
C17_TopLevelFiltersCompiled ==
    Done("_build_search_query") =>
        result = _build_search_query(request.query, EffectiveFilters(request))

EmptyRequest ==
    /\ request.query = None
    /\ request.filters \in {None, Some(NoFilters)}
    /\ request.flat = NoFlat

\* C18: a fully empty search request (no free-text query, no filters)
\* compiles to the match-everything query.
C18_EmptyRequestIsMatchAll ==
    (Done("_build_search_query") /\ EmptyRequest) =>
        result = [kind |-> "match_all"]

\* C18, as the code has it: the empty request compiles to the bool query
\* whose only clause is the status = active filter.
C18_EmptyRequestIsActiveOnly ==
    (Done("_build_search_query") /\ EmptyRequest) =>
        result = [kind |-> "bool", must |-> <<>>, filter |-> <<ActiveClause>>]

C18_Witness ==
    /\ Done("_build_search_query")
    /\ request.query = None
    /\ request.filters = None
    /\ request.flat = NoFlat
    /\ result.kind = "bool"

\* what call i sends when it runs alone
SentAlone(i) ==
    [client |-> search_engine.client, index |-> search_engine.index_name,
     body |-> Some(BodyOf(calls[i]))]

\* C19: concurrent engine calls are independent: in any interleaving of
\* search_properties, get_location_trends, get_property_stats and
\* get_location_suggestions calls, each call's backend request and result are
\* those it produces when run alone, and no call writes the engine's state.
C19_ConcurrentCallsIndependent ==
    /\ engine = search_engine
    /\ pc = "concurrent" =>
         \A i \in 1..MaxCalls :
            /\ calls[i].pc \in {"answered", "done"} => calls[i].sent = SentAlone(i)
            /\ calls[i].pc = "done" =>
                 /\ calls[i].result # None
                 /\ calls[i].result[1] \in ResultsOf(calls[i], calls[i].response)

\* two different calls in flight together, both finished
C19_Witness ==
    /\ pc = "concurrent"
    /\ calls[1].pc = "done"
    /\ calls[2].pc = "done"
    /\ calls[1].op = "search_properties"
    /\ calls[2].op = "get_location_suggestions"
    /\ calls[1].result[1].http = 200
    /\ calls[2].result[1].engine.status = "returned"

\* C20: the price-per-square-foot metric never divides by zero: a document
\* whose square_feet is absent or 0 contributes exactly 0 and does not make
\* the aggregation fail; a document with square_feet > 0 contributes
\* price / square_feet.
C20_PricePerSqftNeverDividesByZero ==
    Done("price_per_sqft") =>
        /\ result.avg.kind \in {"number", "null"}
        /\ \A i \in 1..Len(request.docs) :
              LET doc == request.docs[i]
                  value == result.values[i]
              IN  /\ value.kind = "number"
                  /\ value.den # 0
                  /\ (doc.square_feet = None \/ doc.square_feet = Some(0))
                        => value.num = 0
                  /\ (doc.square_feet # None /\ doc.square_feet[1] > 0)
                        => value.num * doc.square_feet[1] = doc.price * value.den

C20_Witness ==
    /\ Done("price_per_sqft")
    /\ Len(request.docs) = 2
    /\ request.docs[1] = [price |-> 7, square_feet |-> Some(0)]
    /\ request.docs[2] = [price |-> 7, square_feet |-> Some(2)]
    /\ result.avg = [kind |-> "number", num |-> 7, den |-> 4]

\* C21: in the property-statistics query each of the five grouped counts
\* (property type, city, bedroom count, bathroom count, status) is requested
\* with the same fixed maximum of 20 buckets.
C21_GroupedCountsCappedAtTwenty ==
    Done("get_property_stats") =>
        \A g \in DOMAIN sent.terms : sent.terms[g].size = Some(TermsSize)

HasMalformedHit ==
    /\ response.outcome = "ok"
    /\ \E i \in 1..Len(response.hits) : ~(RequiredFields \subseteq DOMAIN response.hits[i])

\* C22: if any hit of the backend's search response lacks a required Property
\* field, search_properties fails for the whole call; it never returns a
\* response from which that hit was dropped.
C22_MalformedHitFailsTheSearch ==
    (Done("search_properties") /\ HasMalformedHit) =>
        /\ result.engine.status = "raised"
        /\ result.http = 500

C22_Witness ==
    /\ Done("search_properties")
    /\ response.outcome = "ok"
    /\ Len(response.hits) = 2
    /\ RequiredFields \subseteq DOMAIN response.hits[1]
    /\ "title" \notin DOMAIN response.hits[2]
    /\ result.engine = Raised("validation_error")

\* C23: the properties of a search response have the length and the order of
\* the backend's hit list (the i-th property is the i-th hit deserialized;
\* nothing reordered, dropped or duplicated), and its page and limit are the
\* request's.
C23_PropertiesFollowHits ==
    SearchReturned =>
        LET value == result.engine.value
        IN  /\ Len(value.properties) = Len(response.hits)
            /\ \A i \in 1..Len(response.hits) :
                  /\ value.properties[i].id = response.hits[i]["id"]
                  /\ value.properties[i].title = response.hits[i]["title"]
                  /\ value.properties[i].price = response.hits[i]["price"]
            /\ value.page = request.page
            /\ value.limit = request.limit

C23_Witness ==
    /\ SearchReturned
    /\ Len(response.hits) = 2
    /\ response.hits[1]["id"] = "p2"
    /\ response.hits[2]["id"] = "p1"
    /\ request.page = 2
    /\ result.engine.value.properties[1].id = "p2"
    /\ result.engine.value.properties[2].id = "p1"

\* the documents the request matches
PagingMatching ==
    {id \in DOMAIN store.docs :
        /\ store.docs[id]["status"] = "active"
        /\ request.filters # None =>
              store.docs[id]["price"] <= request.filters[1].max_price[1]}

\* the sort puts the matching documents in one total order
DeterministicOrder ==
    \A a, b \in PagingMatching :
        store.docs[a]["price"] = store.docs[b]["price"] => a = b

\* the ids of the matching documents, in the order of the sort
FullResult ==
    CHOOSE ids \in Orders(PagingMatching) :
        \A i \in 1..Len(ids) : \A j \in i..Len(ids) :
            IF request.sort_order = Some("desc")
              THEN store.docs[ids[i]]["price"] >= store.docs[ids[j]]["price"]
              ELSE store.docs[ids[i]]["price"] <= store.docs[ids[j]]["price"]

PageIds(k) ==
    [i \in 1..Len(calls[k].result.properties) |-> calls[k].result.properties[i].id]

RECURSIVE PagesUpTo(_)
\* pages 1 .. k, one after the other
PagesUpTo(k) == IF k = 0 THEN <<>> ELSE PagesUpTo(k - 1) \o PageIds(k)

\* C24: every search is issued with the zero-based offset
\* from = (page - 1) * limit and size = limit; so against an unchanged store
\* with a deterministic total sort order pages 1 .. total_pages are pairwise
\* disjoint consecutive slices whose concatenation is the full matching
\* result list, and a page beyond total_pages is empty.
C24_PagesAreConsecutiveSlices ==
    pc = "paging" =>
        /\ \A k \in 1..Len(calls) :
              /\ calls[k].sent.from = (k - 1) * request.limit
              /\ calls[k].sent.size = request.limit
        /\ DeterministicOrder =>
              \A k \in 1..Len(calls) :
                 LET total_pages == calls[k].result.total_pages
                 IN  /\ k <= total_pages =>
                          PageIds(k) = SubSeq(FullResult, (k - 1) * request.limit + 1,
                                              Min(k * request.limit, Len(FullResult)))
                     /\ k > total_pages => PageIds(k) = <<>>
                     /\ k >= total_pages => PagesUpTo(total_pages) = FullResult
                     /\ \A j \in 1..Len(calls) :
                           j # k => Elements(PageIds(j)) \cap Elements(PageIds(k)) = {}

\* three matching documents fetched in pages of two, and the empty page beyond
C24_Witness ==
    /\ pc = "paging"
    /\ DeterministicOrder
    /\ Cardinality(PagingMatching) = 3
    /\ request.limit = 2
    /\ Len(calls) = 3
    /\ Len(PageIds(1)) = 2
    /\ Len(PageIds(2)) = 1
    /\ PageIds(3) = <<>>

\* the field each recognized non-relevance sort key stands for
MappedField(k) ==
    CASE k = "price" -> "price"
      [] k = "date" -> "listing_date"
      [] k = "bedrooms" -> "details.bedrooms"
      [] k = "sqft" -> "details.square_feet"

\* C25: for each recognized non-relevance sort key _build_sort_criteria emits
\* exactly one directive, on the mapped field, descending only when the
\* requested direction is the descending value ("desc") and ascending for
\* every other direction value, missing or misspelled ones included.
C25_RecognizedKeySortsOnMappedField ==
    (/\ Done("_build_sort_criteria")
     /\ request.sort_by \in {Some("price"), Some("date"), Some("bedrooms"), Some("sqft")}) =>
        /\ Len(result) = 1
        /\ result[1].field = MappedField(request.sort_by[1])
        /\ result[1].order = IF request.sort_order = Some("desc") THEN "desc" ELSE "asc"

C25_Witness ==
    /\ Done("_build_sort_criteria")
    /\ request.sort_by = Some("date")
    /\ request.sort_order = Some("descending")
    /\ result = <<[field |-> "listing_date", order |-> "asc"]>>

\* the clauses of a group of the given kind on the given field
ClausesOn(group, kind, field) ==
    {i \in 1..Len(group) : group[i].kind = kind /\ group[i].field = field}

\* the text clauses of a group over the given fields
TextClausesOn(group, fields) ==
    {i \in 1..Len(group) : group[i].kind = "multi_match" /\ group[i].fields = fields}

\* 1 when the condition holds, else 0
OneIf(present) == IF present THEN 1 ELSE 0

\* the grouping of C26, a filter counting as given when `Given` says so
Grouped(q, query, f, GivenStr(_), GivenNum(_)) ==
    /\ q.kind = "bool"
    /\ \A i \in 1..Len(q.must) : q.must[i].kind = "multi_match"
    /\ \A i \in 1..Len(q.filter) : q.filter[i].kind \in {"term", "range"}
    /\ Cardinality(TextClausesOn(q.must, TextFields)) = OneIf(GivenStr(query))
    /\ Cardinality(TextClausesOn(q.must, LocationFields)) = OneIf(GivenStr(f.location))
    /\ Len(q.must) = OneIf(GivenStr(query)) + OneIf(GivenStr(f.location))
    /\ Cardinality(ClausesOn(q.filter, "range", "price"))
          = OneIf(GivenNum(f.min_price) \/ GivenNum(f.max_price))
    /\ Cardinality(ClausesOn(q.filter, "term", "details.bedrooms"))
          = OneIf(GivenNum(f.bedrooms))
    /\ Cardinality(ClausesOn(q.filter, "range", "details.bathrooms"))
          = OneIf(GivenNum(f.bathrooms))
    /\ \A i \in ClausesOn(q.filter, "range", "details.bathrooms") :
          DOMAIN q.filter[i].range = {"gte"}
    /\ Cardinality(ClausesOn(q.filter, "term", "details.property_type"))
          = OneIf(GivenStr(f.property_type))
    /\ Cardinality(ClausesOn(q.filter, "range", "details.square_feet"))
          = OneIf(GivenNum(f.min_sqft) \/ GivenNum(f.max_sqft))

IsGiven(x) == x # None

\* C26: in every compiled search query the free-text query (title boosted)
\* and the location filter appear only in the scored must group, and price
\* range, exact bedroom count, minimum bathroom count (gte), exact property
\* type and square-footage range only in the non-scored filter group; each
\* filter that is present yields exactly one clause.
C26_EachPresentFilterOneClauseInItsGroup ==
    (Done("_build_search_query") /\ request.filters # None) =>
        Grouped(result, request.query, request.filters[1], IsGiven, IsGiven)

\* the grouping of C26 holds of the filters whose value is truthy
C26_EachTruthyFilterOneClauseInItsGroup ==
    (Done("_build_search_query") /\ request.filters # None) =>
        Grouped(result, request.query, request.filters[1], TruthyStr, TruthyNum)

\* the value of a numeric filter, 0 taken for absent
Unset0(x) == IF x = Some(0) THEN None ELSE x

\* the filters with every numeric field that is 0 unset
WithoutZeros(f) ==
    [f EXCEPT !.min_price = Unset0(@), !.max_price = Unset0(@),
              !.bedrooms = Unset0(@), !.bathrooms = Unset0(@),
              !.min_sqft = Unset0(@), !.max_sqft = Unset0(@)]

\* C27: a numeric filter whose value is 0 is treated exactly like an absent
\* one: for min_price, max_price, bedrooms, bathrooms, min_sqft and max_sqft
\* the request with the field set to 0 compiles to the query of the request
\* with the field unset.
C27_ZeroIsAbsent ==
    (Done("_build_search_query") /\ request.filters # None) =>
        result = _build_search_query(request.query,
                                     Some(WithoutZeros(request.filters[1])))

C27_Witness ==
    /\ Done("_build_search_query")
    /\ request.query = None
    /\ request.filters = Some([NoFilters EXCEPT !.bedrooms = Some(0),
                                                !.min_price = Some(0)])
    /\ result = [kind |-> "bool", must |-> <<>>, filter |-> <<ActiveClause>>]

\* C28: the amenities filter has no effect on search: two requests that
\* differ only in filters.amenities (or in the top-level amenities field)
\* compile to identical backend queries.
C28_AmenitiesHaveNoEffect ==
    Done("_build_search_query") =>
        /\ request.filters # None =>
              result = _build_search_query(request.query,
                          Some([request.filters[1] EXCEPT !.amenities = None]))
        /\ request.filters = None =>
              result = _build_search_query(request.query, None)
        /\ \A i \in 1..Len(result.filter) : result.filter[i].field # "details.amenities"

C28_Witness ==
    /\ Done("_build_search_query")
    /\ request.query = None
    /\ request.filters = Some([NoFilters EXCEPT !.amenities = Some(<<"pool">>),
                                                !.bedrooms = Some(2)])
    /\ result = [kind |-> "bool", must |-> <<>>,
                 filter |-> <<TermClause("details.bedrooms", 2), ActiveClause>>]

C28_WitnessTopLevel ==
    /\ Done("_build_search_query")
    /\ request.filters = None
    /\ request.flat.amenities = Some(<<"pool">>)
    /\ result = [kind |-> "bool", must |-> <<>>, filter |-> <<ActiveClause>>]

\* the bracket a price belongs to, boundaries at 200000, 400000, 600000, 800000
BracketOf(price) ==
    IF price < 200000 THEN "Under $200K"
    ELSE IF price < 400000 THEN "$200K-$400K"
    ELSE IF price < 600000 THEN "$400K-$600K"
    ELSE IF price < 800000 THEN "$600K-$800K"
    ELSE "Over $800K"

\* C29: the five price brackets of the location-trends query partition the
\* non-negative prices: each bracket including its lower and excluding its
\* upper bound, every price >= 0 falls in exactly one of Under $200K,
\* $200K-$400K, $400K-$600K, $600K-$800K, Over $800K, the boundaries being
\* exactly 200000, 400000, 600000 and 800000.
C29_PriceBracketsPartition ==
    (Done("price_ranges") /\ request.price >= 0) =>
        /\ Len(sent.price_ranges) = 5
        /\ result = {BracketOf(request.price)}

C29_Witness ==
    /\ Done("price_ranges")
    /\ request.price = 400000
    /\ result = {"$400K-$600K"}

NoDuplicates(list) ==
    \A i, j \in 1..Len(list) : list[i] = list[j] => i = j

\* the last call for the pair was an add
LastWasAdd(user_id, property_id) ==
    /\ <<user_id, property_id>> \in DOMAIN added.last
    /\ added.last[<<user_id, property_id>>] = "add"

\* C30: after any sequence of add_to_favorites and remove_from_favorites
\* calls each user's favorites list holds no property id twice, holds a
\* property id exactly when the last call for that (user, property) pair was
\* an add, and a call for one user changes no other user's list.
C30_FavoritesFollowLastCall ==
    pc = "agent" =>
        /\ \A user_id \in UserIds :
              /\ NoDuplicates(get_user_favorites(store, user_id))
              /\ \A property_id \in Ids :
                    property_id \in Elements(get_user_favorites(store, user_id))
                       <=> LastWasAdd(user_id, property_id)
        /\ op # "none" =>
              \A user_id \in UserIds \ {request.user_id} :
                 get_user_favorites(store, user_id)
                    = get_user_favorites(added.before, user_id)

\* one user's list after add, add, remove of the first, add again; the other
\* user's list untouched
C30_Witness ==
    /\ pc = "agent"
    /\ op = "add_to_favorites"
    /\ request = [user_id |-> "u1", property_id |-> "p1"]
    /\ get_user_favorites(store, "u1") = <<"p2", "p1">>
    /\ get_user_favorites(added.before, "u1") = <<"p2">>
    /\ get_user_favorites(store, "u2") = <<"p1">>

=============================================================================
